---- MODULE Spec2Model ----
(***************************************************************************)
(* Model of the opex-agent workflow pipeline: the seven stage nodes of     *)
(* nodes.py, the graph wired by agent.build_agent, and the two request     *)
(* handlers of server.py (/run and /chat).                                 *)
(*                                                                         *)
(* A text is a sequence of symbols.  A symbol is a one-character string,   *)
(* or a fixed literal of the source (a prompt template, a canned note)     *)
(* kept as one opaque symbol.                                              *)
(***************************************************************************)
EXTENDS Integers, Sequences, FiniteSets, TLC

\* ------------------------------------------------------------------ bounds
\* Largest number of revision-loop iterations explored in one run.
MaxIterations == 1
\* Largest number of direct stage calls explored in the stage-level spec.
MaxCalls == 2
\* Largest number of ConnectionManager calls explored.
MaxOps == 4

\* ------------------------------------------------------------------- texts
Whitespace == {" ", "\n", "\t"}

UpperCase == <<"A","B","C","D","E","F","G","H","I","J","K","L","M",
               "N","O","P","Q","R","S","T","U","V","W","X","Y","Z">>
LowerCase == <<"a","b","c","d","e","f","g","h","i","j","k","l","m",
               "n","o","p","q","r","s","t","u","v","w","x","y","z">>

\* str.lower() on one symbol
LowerChar(ch) ==
    IF \E i \in 1..Len(UpperCase) : UpperCase[i] = ch
    THEN LowerCase[CHOOSE i \in 1..Len(UpperCase) : UpperCase[i] = ch]
    ELSE ch

\* variant: no case folding
Lower_identity(s) == s

\* str.lower()
Lower(s) == [i \in 1..Len(s) |-> LowerChar(s[i])]

\* str.strip(): drop leading and trailing whitespace, keep inner whitespace
Strip(s) ==
    LET keep == {i \in 1..Len(s) : s[i] \notin Whitespace}
    IN  IF keep = {} THEN <<>>
        ELSE LET lo == CHOOSE i \in keep : \A j \in keep : i <= j
                 hi == CHOOSE i \in keep : \A j \in keep : j <= i
             IN  SubSeq(s, lo, hi)

\* t in s  (substring search)
Contains(s, t) ==
    \E i \in 0..(Len(s) - Len(t)) : SubSeq(s, i + 1, i + Len(t)) = t

\* "".join(segments)
RECURSIVE Join(_)
Join(segs) == IF segs = <<>> THEN <<>> ELSE Head(segs) \o Join(Tail(segs))

\* the marker validationNode searches for
PassToken == <<"p","a","s","s">>

\* canned notes of the two revisers
NoteProcess == <<"Validation passed. No iteration required.">>
NoteDoc == <<"Validation passed. No document iteration required.">>

\* fragments the text-generation service may stream
FragBlank == <<" ">>
FragPassA == <<" ","P","A">>
FragPassB == <<"s","s","\n">>
FragFail  == <<"F","a","i","l"," ">>

\* One call of the text-generation service: the fragments it streams and
\* whether the stream then ends normally (ok) or raises.
LLMOutcomes ==
    { [ok |-> TRUE,  chunks |-> <<FragBlank>>],
      [ok |-> TRUE,  chunks |-> <<FragPassA, FragPassB>>],
      [ok |-> TRUE,  chunks |-> <<FragFail>>],
      [ok |-> FALSE, chunks |-> <<>>],
      [ok |-> FALSE, chunks |-> <<FragFail>>] }

\* _chunk_to_text on a string chunk is the chunk itself; empty ones are
\* skipped, the rest joined and stripped.
invoke_llm(out) ==
    Strip(Join(SelectSeq(out.chunks, LAMBDA c : c # <<>>)))

\* --------------------------------------------------------- the state dict
\* cxt is a Python dict: a function whose DOMAIN is the set of keys present.
Has(c, k) == k \in DOMAIN c
Put(c, k, v) == (k :> v) @@ c
\* Python truthiness of a str value
Truthy(v) == v # <<>>

STEP_LABELS ==
    [ intentParser           |-> "Gathering user intent",
      generateProcessDiagram |-> "Generating process diagram",
      generateDocument       |-> "Drafting process document",
      validation             |-> "Validating workflow",
      processIteration       |-> "Refining diagram",
      docIteration           |-> "Refining document",
      tools                  |-> "Sending final outputs" ]

Steps == DOMAIN STEP_LABELS

\* Result of one node call: the dict afterwards, the exception raised
\* ("none" when the node returned), the prompts sent to the text-generation
\* service (each with the values interpolated into it) and the number of
\* invocations of a registered external tool.
Result(c, e, reqs, nTools) ==
    [cxt |-> c, err |-> e, requests |-> reqs, toolCalls |-> nTools]

Request(step, inputs) == [step |-> step, inputs |-> inputs]

Last(s) == s[Len(s)]

\* variant: the new message overwrites the history instead of extending it
AppendMessage_overwrite(c, text) == [c EXCEPT !.messages = <<text>>]

\* cxt["messages"].append(AIMessage(content=text))
AppendMessage(c, text) == [c EXCEPT !.messages = Append(@, text)]

\* ------------------------------------------------------------ stage nodes
\* Each node takes the dict and the outcome `out` of the one call it may
\* make to the text-generation service.  A node that raises leaves the dict
\* as it was: every write follows the service call.

\* Intent Normalizer
intentParserNode(c, out) ==
    IF c.messages = <<>> THEN Result(c, "NoMessages", <<>>, 0)
    ELSE LET user_message == Last(c.messages)
             req == Request("intentParser", <<user_message>>)
         IN  IF ~out.ok THEN Result(c, "GatewayError", <<req>>, 0)
             ELSE LET optimized_message == invoke_llm(out)
                  IN  Result(AppendMessage(c, optimized_message),
                             "none", <<req>>, 0)

\* Diagram Generator
generateProcessDiagramNode(c, out) ==
    IF c.messages = <<>> THEN Result(c, "NoMessages", <<>>, 0)
    ELSE LET optimized_message == Last(c.messages)
             req == Request("generateProcessDiagram", <<optimized_message>>)
         IN  IF ~out.ok THEN Result(c, "GatewayError", <<req>>, 0)
             ELSE LET diagram_outline == invoke_llm(out)
                      c1 == Put(c, "diagram", diagram_outline)
                  IN  Result(AppendMessage(c1, diagram_outline),
                             "none", <<req>>, 0)

\* variant: the Document Generator takes the last message as the intent
generateDocumentNode_readsLast(c, out) ==
    IF c.messages = <<>> THEN Result(c, "NoMessages", <<>>, 0)
    ELSE IF Len(c.messages) < 2 THEN Result(c, "IndexError", <<>>, 0)
    ELSE IF ~Has(c, "diagram") THEN Result(c, "KeyError", <<>>, 0)
    ELSE IF ~Truthy(c.diagram) THEN Result(c, "NoDiagram", <<>>, 0)
    ELSE LET optimized_message == Last(c.messages)
             mermaid_diagram == c.diagram
             req == Request("generateDocument",
                            <<optimized_message, mermaid_diagram>>)
         IN  IF ~out.ok THEN Result(c, "GatewayError", <<req>>, 0)
             ELSE LET document_text == invoke_llm(out)
                      c1 == Put(c, "document", document_text)
                  IN  Result(AppendMessage(c1, document_text),
                             "none", <<req>>, 0)

\* Document Generator
generateDocumentNode(c, out) ==
    IF c.messages = <<>> THEN Result(c, "NoMessages", <<>>, 0)
    ELSE IF Len(c.messages) < 2 THEN Result(c, "IndexError", <<>>, 0)
    ELSE IF ~Has(c, "diagram") THEN Result(c, "KeyError", <<>>, 0)
    ELSE IF ~Truthy(c.diagram) THEN Result(c, "NoDiagram", <<>>, 0)
    ELSE LET optimized_message == c.messages[Len(c.messages) - 1]
             mermaid_diagram == c.diagram
             req == Request("generateDocument",
                            <<optimized_message, mermaid_diagram>>)
         IN  IF ~out.ok THEN Result(c, "GatewayError", <<req>>, 0)
             ELSE LET document_text == invoke_llm(out)
                      c1 == Put(c, "document", document_text)
                  IN  Result(AppendMessage(c1, document_text),
                             "none", <<req>>, 0)

\* Validator
validationNode(c, out) ==
    IF ~Has(c, "document") \/ ~Has(c, "diagram")
    THEN Result(c, "KeyError", <<>>, 0)
    ELSE IF ~Truthy(c.document) \/ ~Truthy(c.diagram)
    THEN Result(c, "MissingArtifact", <<>>, 0)
    ELSE LET req == Request("validation", <<c.document, c.diagram>>)
         IN  IF ~out.ok THEN Result(c, "GatewayError", <<req>>, 0)
             ELSE LET review == invoke_llm(out)
                      is_pass == Contains(Lower(review), PassToken)
                      c1 == Put(c, "is_satisfied", is_pass)
                  IN  Result(AppendMessage(c1, review),
                             "none", <<req>>, 0)

\* variant: the Diagram Reviser marks the state satisfied once it has revised
processIterationNode_marks(c, out) ==
    IF c.messages = <<>> THEN Result(c, "NoMessages", <<>>, 0)
    ELSE IF ~Has(c, "is_satisfied") THEN Result(c, "KeyError", <<>>, 0)
    ELSE IF c.is_satisfied
    THEN Result(AppendMessage(c, NoteProcess), "none", <<>>, 0)
    ELSE IF ~Has(c, "document") \/ ~Has(c, "diagram")
    THEN Result(c, "KeyError", <<>>, 0)
    ELSE IF ~Truthy(c.document) \/ ~Truthy(c.diagram)
    THEN Result(c, "MissingArtifact", <<>>, 0)
    ELSE LET last_message == Last(c.messages)
             req == Request("processIteration",
                            <<c.document, c.diagram, last_message>>)
         IN  IF ~out.ok THEN Result(c, "GatewayError", <<req>>, 0)
             ELSE LET revised_diagram == invoke_llm(out)
                      c1 == Put(Put(c, "diagram", revised_diagram),
                                "is_satisfied", TRUE)
                  IN  Result(AppendMessage(c1, revised_diagram),
                             "none", <<req>>, 0)

\* variant: the Diagram Reviser stores its revision under "document"
processIterationNode_writesDocument(c, out) ==
    IF c.messages = <<>> THEN Result(c, "NoMessages", <<>>, 0)
    ELSE IF ~Has(c, "is_satisfied") THEN Result(c, "KeyError", <<>>, 0)
    ELSE IF c.is_satisfied
    THEN Result(AppendMessage(c, NoteProcess), "none", <<>>, 0)
    ELSE IF ~Has(c, "document") \/ ~Has(c, "diagram")
    THEN Result(c, "KeyError", <<>>, 0)
    ELSE IF ~Truthy(c.document) \/ ~Truthy(c.diagram)
    THEN Result(c, "MissingArtifact", <<>>, 0)
    ELSE LET last_message == Last(c.messages)
             req == Request("processIteration",
                            <<c.document, c.diagram, last_message>>)
         IN  IF ~out.ok THEN Result(c, "GatewayError", <<req>>, 0)
             ELSE LET revised_diagram == invoke_llm(out)
                      c1 == Put(c, "document", revised_diagram)
                  IN  Result(AppendMessage(c1, revised_diagram),
                             "none", <<req>>, 0)

\* Diagram Reviser
processIterationNode(c, out) ==
    IF c.messages = <<>> THEN Result(c, "NoMessages", <<>>, 0)
    ELSE IF ~Has(c, "is_satisfied") THEN Result(c, "KeyError", <<>>, 0)
    ELSE IF c.is_satisfied
    THEN Result(AppendMessage(c, NoteProcess), "none", <<>>, 0)
    ELSE IF ~Has(c, "document") \/ ~Has(c, "diagram")
    THEN Result(c, "KeyError", <<>>, 0)
    ELSE IF ~Truthy(c.document) \/ ~Truthy(c.diagram)
    THEN Result(c, "MissingArtifact", <<>>, 0)
    ELSE LET last_message == Last(c.messages)
             req == Request("processIteration",
                            <<c.document, c.diagram, last_message>>)
         IN  IF ~out.ok THEN Result(c, "GatewayError", <<req>>, 0)
             ELSE LET revised_diagram == invoke_llm(out)
                      c1 == Put(c, "diagram", revised_diagram)
                  IN  Result(AppendMessage(c1, revised_diagram),
                             "none", <<req>>, 0)

\* variant: the Document Reviser without its is_satisfied guard
docIterationNode_noGuard(c, out) ==
    IF c.messages = <<>> THEN Result(c, "NoMessages", <<>>, 0)
    ELSE IF ~Has(c, "document") \/ ~Has(c, "diagram")
    THEN Result(c, "KeyError", <<>>, 0)
    ELSE IF ~Truthy(c.document) \/ ~Truthy(c.diagram)
    THEN Result(c, "MissingArtifact", <<>>, 0)
    ELSE LET last_message == Last(c.messages)
             req == Request("docIteration",
                            <<c.document, c.diagram, last_message>>)
         IN  IF ~out.ok THEN Result(c, "GatewayError", <<req>>, 0)
             ELSE LET revised_document == invoke_llm(out)
                      c1 == Put(c, "document", revised_document)
                  IN  Result(AppendMessage(c1, revised_document),
                             "none", <<req>>, 0)

\* Document Reviser
docIterationNode(c, out) ==
    IF c.messages = <<>> THEN Result(c, "NoMessages", <<>>, 0)
    ELSE IF ~Has(c, "is_satisfied") THEN Result(c, "KeyError", <<>>, 0)
    ELSE IF c.is_satisfied
    THEN Result(AppendMessage(c, NoteDoc), "none", <<>>, 0)
    ELSE IF ~Has(c, "document") \/ ~Has(c, "diagram")
    THEN Result(c, "KeyError", <<>>, 0)
    ELSE IF ~Truthy(c.document) \/ ~Truthy(c.diagram)
    THEN Result(c, "MissingArtifact", <<>>, 0)
    ELSE LET last_message == Last(c.messages)
             req == Request("docIteration",
                            <<c.document, c.diagram, last_message>>)
         IN  IF ~out.ok THEN Result(c, "GatewayError", <<req>>, 0)
             ELSE LET revised_document == invoke_llm(out)
                      c1 == Put(c, "document", revised_document)
                  IN  Result(AppendMessage(c1, revised_document),
                             "none", <<req>>, 0)

\* Dispatch.  The node reads neither is_satisfied nor the registered tools:
\* it asks the text-generation service for a summary and appends it.
toolNode(c, out) ==
    IF ~Has(c, "document") \/ ~Has(c, "diagram")
    THEN Result(c, "KeyError", <<>>, 0)
    ELSE IF ~Truthy(c.document) \/ ~Truthy(c.diagram)
    THEN Result(c, "MissingArtifact", <<>>, 0)
    ELSE LET req == Request("tools", <<c.document, c.diagram>>)
         IN  IF ~out.ok THEN Result(c, "GatewayError", <<req>>, 0)
             ELSE LET final_summary == invoke_llm(out)
                  IN  Result(AppendMessage(c, final_summary),
                             "none", <<req>>, 0)

\* the node registered under each name by build_agent (graph.add_node)
Node(step, c, out) ==
    CASE step = "intentParser"           -> intentParserNode(c, out)
      [] step = "generateProcessDiagram" -> generateProcessDiagramNode(c, out)
      [] step = "generateDocument"       -> generateDocumentNode(c, out)
      [] step = "validation"             -> validationNode(c, out)
      [] step = "processIteration"       -> processIterationNode(c, out)
      [] step = "docIteration"           -> docIterationNode(c, out)
      [] step = "tools"                  -> toolNode(c, out)

\* variant: the branch labels exchanged
should_iterate_inverted(c) == IF c.is_satisfied THEN "docIteration" ELSE "tools"

\* the conditional edge out of "validation"
should_iterate(c) == IF c.is_satisfied THEN "tools" ELSE "docIteration"

\* variant: the loop wired Diagram Reviser first, Document Reviser second
NextNode_diagramFirst(step, c) ==
    CASE step = "intentParser"           -> "generateProcessDiagram"
      [] step = "generateProcessDiagram" -> "generateDocument"
      [] step = "generateDocument"       -> "validation"
      [] step = "validation"             ->
             IF c.is_satisfied THEN "tools" ELSE "processIteration"
      [] step = "processIteration"       -> "docIteration"
      [] step = "docIteration"           -> "validation"
      [] step = "tools"                  -> "END"

\* variant: the Document Generator wired straight to Dispatch
NextNode_skipValidation(step, c) ==
    CASE step = "intentParser"           -> "generateProcessDiagram"
      [] step = "generateProcessDiagram" -> "generateDocument"
      [] step = "generateDocument"       -> "tools"
      [] step = "validation"             -> should_iterate(c)
      [] step = "docIteration"           -> "processIteration"
      [] step = "processIteration"       -> "validation"
      [] step = "tools"                  -> "END"

\* variant: Dispatch wired back to the Validator instead of END
NextNode_revalidate(step, c) ==
    CASE step = "intentParser"           -> "generateProcessDiagram"
      [] step = "generateProcessDiagram" -> "generateDocument"
      [] step = "generateDocument"       -> "validation"
      [] step = "validation"             -> should_iterate(c)
      [] step = "docIteration"           -> "processIteration"
      [] step = "processIteration"       -> "validation"
      [] step = "tools"                  -> "validation"

\* the edges of the compiled graph: the node that runs after `step`
NextNode(step, c) ==
    CASE step = "intentParser"           -> "generateProcessDiagram"
      [] step = "generateProcessDiagram" -> "generateDocument"
      [] step = "generateDocument"       -> "validation"
      [] step = "validation"             -> should_iterate(c)
      [] step = "docIteration"           -> "processIteration"
      [] step = "processIteration"       -> "validation"
      [] step = "tools"                  -> "END"

\* ------------------------------------------------------- request handling
Sessions == {"s1", "s2"}
UserPrompt == <<"o","n","b","o","a","r","d">>
StoredDiagram == <<"A","-","-",">","B">>
StoredDocument == <<"S","O","P">>

\* RunRequest bodies
Bodies == [chat_session_id : Sessions, prompt : {UserPrompt}]

\* What get_latest_diagram_and_document does for a session: the query raises
\* (ok = FALSE), or it returns a (diagram, document) pair in which <<>>
\* stands for None.
PersistenceOutcomes ==
    { [ok |-> FALSE, diagram |-> <<>>, document |-> <<>>],
      [ok |-> TRUE,  diagram |-> <<>>, document |-> <<>>],
      [ok |-> TRUE,  diagram |-> StoredDiagram, document |-> StoredDocument] }

\* build_full_prompt, given the row the persistence lookup returned
build_full_prompt(user_prompt, row) ==
    LET diagramPart ==
            IF Truthy(row.diagram)
            THEN <<"=== CURRENT WORKFLOW DIAGRAM ===\n">> \o row.diagram \o <<"\n", "\n">>
            ELSE <<>>
        documentPart ==
            IF Truthy(row.document)
            THEN <<"=== CURRENT SOP DOCUMENT ===\n">> \o row.document \o <<"\n", "\n">>
            ELSE <<>>
        context_parts == diagramPart \o documentPart
    IN  IF context_parts # <<>>
        THEN <<"You are an editor of an EXISTING business process.\n\n">>
             \o context_parts
             \o <<"=== USER REQUEST ===\n">> \o user_prompt \o <<"\n", "\n">>
             \o <<"Respond as if you are the same agent\n">>
        ELSE <<"You are designing a NEW business process from scratch.\n\n">>
             \o <<"USER REQUEST:\n">> \o user_prompt \o <<"\n">>

\* serialize_message_content on a message whose content is a str
serialize_message_content(message) == message

\* dict.get(k): <<>> stands for None, <<v>> for a present value
Get(c, k) == IF Has(c, k) THEN <<c[k]>> ELSE <<>>

\* the input dict both handlers hand to the compiled graph; chat_session_id
\* is not a key of Context and does not reach the state
GraphInput(full_prompt) == [messages |-> <<full_prompt>>]

\* SSE frames of _sse_event_stream
StatusFrame(step, status) ==
    [type |-> "status", step |-> step, label |-> STEP_LABELS[step],
     status |-> status]
ChunkFrame(step, delta) ==
    [type |-> "chunk", step |-> step, label |-> STEP_LABELS[step],
     delta |-> delta]
ErrorFrame(message) == [type |-> "error", message |-> message]
DoneFrame == [type |-> "[DONE]"]

\* variant: the id is taken from the state alone, without the fallback
session_id_fromState(result, b) ==
    IF Has(result, "chat_session_id") THEN result.chat_session_id ELSE ""

\* result.get("chat_session_id") or body.chat_session_id
session_id(result, b) ==
    IF Has(result, "chat_session_id") /\ result.chat_session_id # ""
    THEN result.chat_session_id
    ELSE b.chat_session_id

ResponseFrame(st, b) ==
    LET messages_list == st.messages
    IN  [type |-> "response",
         chat_session_id |-> session_id(st, b),
         assistant_message |->
             IF messages_list # <<>>
             THEN serialize_message_content(Last(messages_list)) ELSE <<>>,
         document |-> Get(st, "document"),
         diagram |-> Get(st, "diagram"),
         messages |-> [i \in 1..Len(messages_list) |->
                          serialize_message_content(messages_list[i])]]

\* RunResponse of /run
RunResponse(result, b) ==
    [kind |-> "RunResponse",
     chat_session_id |-> session_id(result, b),
     document |-> Get(result, "document"),
     diagram |-> Get(result, "diagram"),
     messages |-> [i \in 1..Len(result.messages) |->
                      serialize_message_content(result.messages[i])]]

\* variant: the exception is swallowed and the state answered anyway
run_workflow_result_swallow(completed, result, b) == RunResponse(result, b)

\* what run_workflow answers once agent.ainvoke returned (completed) or
\* raised
run_workflow_result(completed, result, b) ==
    IF completed THEN RunResponse(result, b) ELSE [kind |-> "http_error"]

\* variant: [DONE] yielded by the except block and again by finally
ErrorTail_doubleDone(message) == <<ErrorFrame(message), DoneFrame, DoneFrame>>

\* the except and finally blocks of _sse_event_stream after an exception:
\* summary_payload is still None
ErrorTail(message) == <<ErrorFrame(message), DoneFrame>>

\* variant: [DONE] yielded before the summary payload
SuccessTail_doneFirst(st, b) == <<DoneFrame, ResponseFrame(st, b)>>

\* the finally block once summary_payload is built from final_state
SuccessTail(st, b) == <<ResponseFrame(st, b), DoneFrame>>

\* ------------------------------------------------------------------ state
VARIABLES
    pc,          \* "start", the node about to run, "END", "aborted", "closed";
                 \* "stage" while nodes are called directly
    path,        \* "run" (POST /run) or "chat" (POST /chat)
    body,        \* the RunRequest
    cxt,         \* the graph state dict
    gateway,     \* prompts sent to the text-generation service, in order
    toolCalls,   \* invocations of a registered external tool
    executed,    \* node executions so far: step, exception, is_satisfied after
    frames,      \* SSE frames yielded by _sse_event_stream
    final_state, \* _sse_event_stream's final_state: <<>> is None
    invocations, \* graph invocations made for this request
    response     \* what /run answered

\* Two requests served by the one compiled graph (server.agent), or one
\* request run twice, with and without a progress handler.
VARIABLES
    runs         \* per request: its node position, state dict and logs

\* ws_manager.ConnectionManager and the coroutines running its methods
VARIABLES
    active,      \* self.active: a dict from session id to a list object
    heap,        \* the list objects, by identity
    tasks,       \* the calls made so far, each with its locals and position
    dead,        \* sockets whose send_json raises
    wire,        \* the send_json calls, in order, with their outcome
    expected     \* per session id: the sockets connected under it, not
                 \* disconnected since, that never failed a write

pipeVars == <<pc, path, body, cxt, gateway, toolCalls, executed, frames,
              final_state, invocations, response>>
wsVars == <<active, heap, tasks, dead, wire, expected>>
vars == <<pipeVars, runs, wsVars>>

\* no request pair in progress
NoRuns == runs = <<>>
\* ConnectionManager.__init__, no call made yet
ManagerInit ==
    /\ active = <<>>
    /\ heap = <<>>
    /\ tasks = <<>>
    /\ dead = {}
    /\ wire = <<>>
    /\ expected = [sid \in Sessions |-> {}]

IsSatisfied(c) == Has(c, "is_satisfied") /\ c.is_satisfied

\* completed executions of the Document Reviser, the first node of the loop
Iterations ==
    Cardinality({i \in 1..Len(executed) :
                    executed[i].step = "docIteration" /\ executed[i].err = "none"})

Init ==
    /\ pc = "start"
    /\ path \in {"run", "chat"}
    /\ body \in Bodies
    /\ cxt = [messages |-> <<>>]
    /\ gateway = <<>>
    /\ toolCalls = 0
    /\ executed = <<>>
    /\ frames = <<>>
    /\ final_state = <<>>
    /\ invocations = 0
    /\ response = [kind |-> "none"]
    /\ NoRuns
    /\ ManagerInit

\* Both handlers start with build_full_prompt, outside any try block, and
\* then invoke the graph.  If the persistence lookup raises, /run ends as an
\* unhandled exception (HTTP 500) and the /chat generator dies before its
\* first yield.
Receive ==
    /\ pc = "start"
    /\ \E row \in PersistenceOutcomes :
         IF row.ok
         THEN /\ cxt' = GraphInput(build_full_prompt(body.prompt, row))
              /\ pc' = "intentParser"
              /\ invocations' = 1
              /\ response' = response
         ELSE /\ pc' = "closed"
              /\ response' = IF path = "run" THEN [kind |-> "http_error"]
                             ELSE response
              /\ UNCHANGED <<cxt, invocations>>
    /\ UNCHANGED <<path, body, gateway, toolCalls, executed, frames, final_state>>
    /\ UNCHANGED <<runs, wsVars>>

\* variant: the end event of a node reported before its start event
NodeFrames_endFirst(step, out, r) ==
    (IF r.err = "none" THEN <<StatusFrame(step, "end")>> ELSE <<>>)
    \o (IF r.requests # <<>>
        THEN [i \in 1..Len(out.chunks) |-> ChunkFrame(step, out.chunks[i])]
        ELSE <<>>)
    \o <<StatusFrame(step, "start")>>

\* frames the astream_events loop yields for one node execution
NodeFrames(step, out, r) ==
    <<StatusFrame(step, "start")>>
    \o (IF r.requests # <<>>
        THEN [i \in 1..Len(out.chunks) |-> ChunkFrame(step, out.chunks[i])]
        ELSE <<>>)
    \o (IF r.err = "none" THEN <<StatusFrame(step, "end")>> ELSE <<>>)

\* variant: the event loop never captures a node's output as final_state
Exec_noCapture(step, out) ==
    LET r == Node(step, cxt, out)
        streaming == path = "chat" /\ invocations = 1
    IN  /\ cxt' = r.cxt
        /\ gateway' = gateway \o r.requests
        /\ toolCalls' = toolCalls + r.toolCalls
        /\ executed' = Append(executed,
                              [step |-> step, err |-> r.err,
                               sat |-> IsSatisfied(r.cxt)])
        /\ frames' = IF streaming THEN frames \o NodeFrames(step, out, r)
                     ELSE frames
        /\ final_state' = final_state
        /\ UNCHANGED <<path, body, invocations, response>>
        /\ UNCHANGED <<runs, wsVars>>

\* One node execution with service outcome `out`: the effect on everything
\* but pc.  Frames are produced only by the astream_events invocation.
Exec(step, out) ==
    LET r == Node(step, cxt, out)
        streaming == path = "chat" /\ invocations = 1
    IN  /\ cxt' = r.cxt
        /\ gateway' = gateway \o r.requests
        /\ toolCalls' = toolCalls + r.toolCalls
        /\ executed' = Append(executed,
                              [step |-> step, err |-> r.err,
                               sat |-> IsSatisfied(r.cxt)])
        /\ frames' = IF streaming THEN frames \o NodeFrames(step, out, r)
                     ELSE frames
        /\ final_state' = IF streaming /\ r.err = "none" THEN <<r.cxt>>
                          ELSE final_state
        /\ UNCHANGED <<path, body, invocations, response>>
        /\ UNCHANGED <<runs, wsVars>>

\* variant: the exception is swallowed and the graph follows the edge anyway
RunNode_continue(step) ==
    /\ pc = step
    /\ \E out \in LLMOutcomes :
         /\ Exec(step, out)
         /\ pc' = NextNode(step, Node(step, cxt, out).cxt)

\* A node of the compiled graph runs; the graph then follows its edge, or
\* the exception leaves the graph.
RunNode(step) ==
    /\ pc = step
    /\ \E out \in LLMOutcomes :
         /\ Exec(step, out)
         /\ pc' = IF Node(step, cxt, out).err = "none"
                  THEN NextNode(step, Node(step, cxt, out).cxt)
                  ELSE "aborted"

RunIntentParser == RunNode("intentParser")
RunGenerateProcessDiagram == RunNode("generateProcessDiagram")
RunGenerateDocument == RunNode("generateDocument")
RunValidation == RunNode("validation")
\* exploration stops after MaxIterations iterations of the loop
RunDocIteration == Iterations < MaxIterations /\ RunNode("docIteration")
RunProcessIteration == RunNode("processIteration")
RunTools == RunNode("tools")

\* /run: agent.ainvoke returned or raised
RunRespond ==
    /\ path = "run"
    /\ pc \in {"END", "aborted"}
    /\ response' = run_workflow_result(pc = "END", cxt, body)
    /\ pc' = "closed"
    /\ UNCHANGED <<path, body, cxt, gateway, toolCalls, executed, frames,
                   final_state, invocations>>
    /\ UNCHANGED <<runs, wsVars>>

\* /chat: the event loop ended.  On an exception: error frame, then [DONE].
\* Otherwise, with no final_state captured, the graph is invoked a second
\* time; with one, the response frame and [DONE] are yielded.
ChatFinish ==
    /\ path = "chat"
    /\ pc \in {"END", "aborted"}
    /\ IF pc = "aborted"
       THEN /\ frames' = frames \o ErrorTail(Last(executed).err)
            /\ pc' = "closed"
            /\ UNCHANGED <<cxt, final_state, invocations>>
       ELSE IF invocations = 1 /\ final_state = <<>>
       THEN /\ cxt' = [messages |-> <<cxt.messages[1]>>]
            /\ invocations' = 2
            /\ pc' = "intentParser"
            /\ UNCHANGED <<frames, final_state>>
       ELSE LET st == IF invocations = 2 THEN cxt ELSE final_state[1]
            IN  /\ final_state' = <<st>>
                /\ frames' = frames \o SuccessTail(st, body)
                /\ pc' = "closed"
                /\ UNCHANGED <<cxt, invocations>>
    /\ UNCHANGED <<path, body, gateway, toolCalls, executed, response>>
    /\ UNCHANGED <<runs, wsVars>>

Next ==
    \/ Receive
    \/ RunIntentParser
    \/ RunGenerateProcessDiagram
    \/ RunGenerateDocument
    \/ RunValidation
    \/ RunDocIteration
    \/ RunProcessIteration
    \/ RunTools
    \/ RunRespond
    \/ ChatFinish

Spec == Init /\ [][Next]_vars

\* ------------------------------------------------- nodes called directly
\* The stage-level specification calls the nodes as plain functions, in any
\* order, on any dict of the shapes below (keys present or not, values empty
\* or not), up to MaxCalls calls.
StageText == <<"F","a","i","l">>
StageHistories == { <<>>, <<UserPrompt>>, <<UserPrompt, StageText>> }
OptionalKeys == {"diagram", "document", "is_satisfied"}

StageStates ==
    UNION { { [k \in K \cup {"messages"} |->
                 CASE k = "messages"     -> m
                   [] k = "diagram"      -> d
                   [] k = "document"     -> o
                   [] k = "is_satisfied" -> sat]
              : m \in StageHistories, d \in {<<>>, StageText},
                o \in {<<>>, StageText}, sat \in BOOLEAN }
            : K \in SUBSET OptionalKeys }

StageInit ==
    /\ pc = "stage"
    /\ path = "run"
    /\ body = [chat_session_id |-> "s1", prompt |-> UserPrompt]
    /\ cxt \in StageStates
    /\ gateway = <<>>
    /\ toolCalls = 0
    /\ executed = <<>>
    /\ frames = <<>>
    /\ final_state = <<>>
    /\ invocations = 0
    /\ response = [kind |-> "none"]
    /\ NoRuns
    /\ ManagerInit

CallNode(step) ==
    /\ pc = "stage"
    /\ Len(executed) < MaxCalls
    /\ \E out \in LLMOutcomes : Exec(step, out)
    /\ pc' = pc

CallIntentParser == CallNode("intentParser")
CallGenerateProcessDiagram == CallNode("generateProcessDiagram")
CallGenerateDocument == CallNode("generateDocument")
CallValidation == CallNode("validation")
CallProcessIteration == CallNode("processIteration")
CallDocIteration == CallNode("docIteration")
CallTools == CallNode("tools")

StageNext ==
    \/ CallIntentParser
    \/ CallGenerateProcessDiagram
    \/ CallGenerateDocument
    \/ CallValidation
    \/ CallProcessIteration
    \/ CallDocIteration
    \/ CallTools

SpecStage == StageInit /\ [][StageNext]_vars

\* ------------------------------------------------ the observer registry
\* ConnectionManager keeps a dict from session id to a list of sockets.
\* Lists are objects: `heap` holds them by identity, `active` maps a session
\* id to the identity of its list.  connect and send_status are coroutines
\* and suspend at their awaits; disconnect is a plain function.
Sinks == {"w1", "w2"}
StatusSteps == {"validation"}

\* dict.pop(k, None)
Pop(d, k) == [x \in DOMAIN d \ {k} |-> d[x]]

\* list.remove(x): drop the first occurrence
Remove(l, x) ==
    LET i == CHOOSE i \in 1..Len(l) :
                 l[i] = x /\ \A j \in 1..(i - 1) : l[j] # x
    IN  SubSeq(l, 1, i - 1) \o SubSeq(l, i + 1, Len(l))

InList(l, x) == \E i \in 1..Len(l) : l[i] = x

\* variant: the list of whichever session id comes first in the dict
LookUp_anySession(sid) ==
    IF DOMAIN active # {} THEN active[CHOOSE k \in DOMAIN active : TRUE] ELSE 0

\* self.active.get(chat_session_id): the identity of the list, 0 when the
\* key is absent (None, or the fresh [] that send_status defaults to)
LookUp(sid) == IF Has(active, sid) THEN active[sid] ELSE 0

\* the sockets registered under sid, in order
Registered(sid) == IF Has(active, sid) THEN heap[active[sid]] ELSE <<>>

\* variant: the socket is kept whether or not send_json raised
Keep_all(still_alive, ws, ok) == Append(still_alive, ws)

\* the try/except around send_json: still_alive.append(ws) runs only when
\* send_json returned
Keep(still_alive, ws, ok) == IF ok THEN Append(still_alive, ws) ELSE still_alive

\* One call of a ConnectionManager method.  pc is "accept" or "write" while
\* the coroutine is suspended there and "done" once the call returned.
\* conns, idx and still_alive are send_status's locals (idx is the position
\* of the list iterator).  snapshot and interleaved record, for a
\* send_status call, the registry entry when it started and whether a
\* connect or disconnect ran while it was suspended.
Task(op, sid, ws, step, at) ==
    [op |-> op, sid |-> sid, ws |-> ws, step |-> step, pc |-> at,
     conns |-> 0, idx |-> 0, still_alive |-> <<>>,
     snapshot |-> <<>>, interleaved |-> FALSE]

InFlight(t) == tasks[t].pc # "done"
Quiescent == \A t \in 1..Len(tasks) : ~InFlight(t)
Accepted(ws) == \E t \in 1..Len(tasks) : tasks[t].op = "connect" /\ tasks[t].ws = ws

\* every suspended send_status notes that the registry was touched meanwhile
Touch(ts) ==
    [t \in 1..Len(ts) |->
        IF ts[t].op = "send_status" /\ ts[t].pc = "write"
        THEN [ts[t] EXCEPT !.interleaved = TRUE] ELSE ts[t]]

WsInit ==
    /\ pc = "ws"
    /\ path = "run"
    /\ body = [chat_session_id |-> "s1", prompt |-> UserPrompt]
    /\ cxt = [messages |-> <<>>]
    /\ gateway = <<>>
    /\ toolCalls = 0
    /\ executed = <<>>
    /\ frames = <<>>
    /\ final_state = <<>>
    /\ invocations = 0
    /\ response = [kind |-> "none"]
    /\ NoRuns
    /\ ManagerInit

\* connect is called with a socket not accepted before and suspends in
\* `await websocket.accept()`
ConnectBegin ==
    /\ pc = "ws"
    /\ Len(tasks) < MaxOps
    /\ \E sid \in Sessions, ws \in Sinks :
         /\ ~Accepted(ws)
         /\ tasks' = Append(tasks, Task("connect", sid, ws, "-", "accept"))
    /\ UNCHANGED <<active, heap, dead, wire, expected>>
    /\ UNCHANGED <<pipeVars, runs>>

\* accept returned: self.active.setdefault(chat_session_id, []).append(ws)
ConnectFinish ==
    /\ pc = "ws"
    /\ \E t \in 1..Len(tasks) :
         /\ tasks[t].op = "connect" /\ tasks[t].pc = "accept"
         /\ LET sid == tasks[t].sid
                ws == tasks[t].ws
            IN  /\ IF Has(active, sid)
                   THEN /\ heap' = [heap EXCEPT ![active[sid]] = Append(@, ws)]
                        /\ active' = active
                   ELSE /\ heap' = Append(heap, <<ws>>)
                        /\ active' = Put(active, sid, Len(heap) + 1)
                /\ tasks' = Touch([tasks EXCEPT ![t].pc = "done"])
                /\ expected' = [expected EXCEPT ![sid] = @ \cup {ws}]
    /\ UNCHANGED <<dead, wire>>
    /\ UNCHANGED <<pipeVars, runs>>

\* variant: disconnect leaves the key in the dict when its list became empty
Disconnect_noPop ==
    /\ pc = "ws"
    /\ Len(tasks) < MaxOps
    /\ \E sid \in Sessions, ws \in Sinks :
         LET conns == LookUp(sid)
         IN  /\ IF conns = 0 \/ heap[conns] = <<>>
                THEN UNCHANGED <<active, heap>>
                ELSE LET l == IF InList(heap[conns], ws)
                              THEN Remove(heap[conns], ws) ELSE heap[conns]
                     IN  /\ heap' = [heap EXCEPT ![conns] = l]
                         /\ active' = active
             /\ tasks' = Touch(Append(tasks,
                                       Task("disconnect", sid, ws, "-", "done")))
             /\ expected' = [expected EXCEPT ![sid] = @ \ {ws}]
    /\ UNCHANGED <<dead, wire>>
    /\ UNCHANGED <<pipeVars, runs>>

\* disconnect(chat_session_id, websocket), for any session id and socket
Disconnect ==
    /\ pc = "ws"
    /\ Len(tasks) < MaxOps
    /\ \E sid \in Sessions, ws \in Sinks :
         LET conns == LookUp(sid)
         IN  /\ IF conns = 0 \/ heap[conns] = <<>>
                THEN UNCHANGED <<active, heap>>
                ELSE LET l == IF InList(heap[conns], ws)
                              THEN Remove(heap[conns], ws) ELSE heap[conns]
                     IN  /\ heap' = [heap EXCEPT ![conns] = l]
                         /\ active' = IF l = <<>> THEN Pop(active, sid)
                                       ELSE active
             /\ tasks' = Touch(Append(tasks,
                                       Task("disconnect", sid, ws, "-", "done")))
             /\ expected' = [expected EXCEPT ![sid] = @ \ {ws}]
    /\ UNCHANGED <<dead, wire>>
    /\ UNCHANGED <<pipeVars, runs>>

\* send_status is called: it looks the list up, returns at once when there
\* is none, and otherwise suspends in send_json on the first socket
SendBegin ==
    /\ pc = "ws"
    /\ Len(tasks) < MaxOps
    /\ \E sid \in Sessions, step \in StatusSteps :
         LET conns == LookUp(sid)
             new == Task("send_status", sid, "-", step, "done")
         IN  tasks' = Append(tasks,
                 IF conns = 0 \/ heap[conns] = <<>>
                 THEN new
                 ELSE [new EXCEPT !.pc = "write", !.conns = conns, !.idx = 1,
                                  !.ws = heap[conns][1],
                                  !.snapshot = heap[conns]])
    /\ UNCHANGED <<active, heap, dead, wire, expected>>
    /\ UNCHANGED <<pipeVars, runs>>

\* send_json on the current socket returned or raised.  The loop goes on to
\* the next position of the list as it is now; past its end, the registry
\* entry is replaced by still_alive, or dropped when that is empty.
SendResume ==
    /\ pc = "ws"
    /\ \E t \in 1..Len(tasks), ok \in BOOLEAN :
         /\ tasks[t].op = "send_status" /\ tasks[t].pc = "write"
         /\ tasks[t].ws \in dead => ~ok
         /\ LET T == tasks[t]
                still_alive == Keep(T.still_alive, T.ws, ok)
                l == heap[T.conns]
            IN  /\ wire' = Append(wire, [task |-> t, sid |-> T.sid, ws |-> T.ws,
                                         message |-> [step |-> T.step],
                                         ok |-> ok])
                /\ dead' = IF ok THEN dead ELSE dead \cup {T.ws}
                /\ expected' = IF ok THEN expected
                               ELSE [sid \in Sessions |-> expected[sid] \ {T.ws}]
                /\ IF T.idx + 1 <= Len(l)
                   THEN /\ tasks' = [tasks EXCEPT
                                        ![t].still_alive = still_alive,
                                        ![t].idx = T.idx + 1,
                                        ![t].ws = l[T.idx + 1]]
                        /\ UNCHANGED <<active, heap>>
                   ELSE /\ IF still_alive # <<>>
                           THEN /\ heap' = Append(heap, still_alive)
                                /\ active' = Put(active, T.sid, Len(heap) + 1)
                           ELSE /\ heap' = heap
                                /\ active' = Pop(active, T.sid)
                        /\ tasks' = [tasks EXCEPT
                                        ![t].still_alive = still_alive,
                                        ![t].pc = "done"]
    /\ UNCHANGED <<pipeVars, runs>>

WsNext ==
    \/ ConnectBegin
    \/ ConnectFinish
    \/ Disconnect
    \/ SendBegin
    \/ SendResume

SpecWs == WsInit /\ [][WsNext]_vars

\* ------------------------------------------------- the wrapped nodes
\* build_agent registers wrap_node(fn, step_key) for every node.  The
\* wrapper reads stream_handler from the dict it is given; when there is one
\* it awaits handler(start event), runs the node, awaits handler(end event).
\* Neither await is guarded: a handler that raises ends the wrapped node
\* with that exception.  startOk and endOk say whether the two handler calls
\* return.  `ran` tells whether the node itself was executed, `events` what
\* the handler received.
wrap_node(step, c, out, startOk, endOk) ==
    LET handler == Get(c, "stream_handler")
        start == <<StatusFrame(step, "start")>>
        end == <<StatusFrame(step, "end")>>
    IN  IF handler = <<>>
        THEN LET r == Node(step, c, out)
             IN  [cxt |-> r.cxt, err |-> r.err, ran |-> TRUE, events |-> <<>>]
        ELSE IF ~startOk
        THEN [cxt |-> c, err |-> "HandlerError", ran |-> FALSE, events |-> <<>>]
        ELSE LET r == Node(step, c, out)
             IN  IF r.err # "none"
                 THEN [cxt |-> r.cxt, err |-> r.err, ran |-> TRUE,
                       events |-> start]
                 ELSE IF ~endOk
                 THEN [cxt |-> r.cxt, err |-> "HandlerError", ran |-> TRUE,
                       events |-> start]
                 ELSE [cxt |-> r.cxt, err |-> "none", ran |-> TRUE,
                       events |-> start \o end]

\* One request in the compiled graph: the node about to run ("END" and
\* "aborted" once ainvoke returned or raised), the state dict, the nodes
\* executed, the text-generation outcomes consumed and the events its
\* handler received.
Run(input) ==
    [pc |-> "intentParser", input |-> input, cxt |-> input,
     executed |-> <<>>, outs |-> <<>>, events |-> <<>>]

\* completed executions of the Document Reviser in one request
RunIterations(R) ==
    Cardinality({i \in 1..Len(R.executed) :
                    R.executed[i].step = "docIteration"
                    /\ R.executed[i].err = "none"})

\* the request after its next node ran on dict c with outcome `out`
Advance(R, c, out, startOk, endOk) ==
    LET w == wrap_node(R.pc, c, out, startOk, endOk)
    IN  [R EXCEPT
           !.cxt = w.cxt,
           !.pc = IF w.err = "none" THEN NextNode(R.pc, w.cxt) ELSE "aborted",
           !.executed = IF w.ran
                        THEN Append(@, [step |-> R.pc, err |-> w.err]) ELSE @,
           !.outs = Append(@, out),
           !.events = @ \o w.events]

\* what a run leaves behind
Outcome(c) ==
    [messages |-> c.messages, diagram |-> Get(c, "diagram"),
     document |-> Get(c, "document"), is_satisfied |-> Get(c, "is_satisfied")]

PairInit(two) ==
    /\ pc = "pair"
    /\ path = "run"
    /\ body = [chat_session_id |-> "s1", prompt |-> UserPrompt]
    /\ cxt = [messages |-> <<>>]
    /\ gateway = <<>>
    /\ toolCalls = 0
    /\ executed = <<>>
    /\ frames = <<>>
    /\ final_state = <<>>
    /\ invocations = 0
    /\ response = [kind |-> "none"]
    /\ runs = two
    /\ ManagerInit

\* The same request twice: request 1 with a progress handler in its dict,
\* request 2 without one.
SinkInit ==
    \E row \in {r \in PersistenceOutcomes : r.ok} :
        LET input == GraphInput(build_full_prompt(UserPrompt, row))
        IN  PairInit(<<Run(Put(input, "stream_handler", "handler")), Run(input)>>)

\* Both requests run their next node and are given the same outcome of the
\* text-generation service.
SinkStep ==
    /\ pc = "pair"
    /\ runs[1].pc = runs[2].pc
    /\ runs[1].pc \in Steps
    /\ runs[2].pc = "docIteration" => RunIterations(runs[2]) < MaxIterations
    /\ \E out \in LLMOutcomes, startOk \in BOOLEAN, endOk \in BOOLEAN :
         runs' = <<Advance(runs[1], runs[1].cxt, out, startOk, endOk),
                   Advance(runs[2], runs[2].cxt, out, TRUE, TRUE)>>
    /\ UNCHANGED <<pipeVars, wsVars>>

SpecSink == SinkInit /\ [][SinkStep]_vars

\* ------------------------------------------------ two requests at once
\* server.agent is compiled once and shared; each handler call hands it a
\* new input dict, and the graph keeps one state per invocation (compile()
\* is given no checkpointer).  The event loop interleaves the nodes of the
\* two invocations at their awaits.
\* The text-generation service answers request 1 with FragFail and request
\* 2 with FragNo, or raises; a review may also be the passing one.
FragNo == <<"N","o"," ">>
PairOutcomes(i, step) ==
    { [ok |-> TRUE,  chunks |-> <<IF i = 1 THEN FragFail ELSE FragNo>>],
      [ok |-> FALSE, chunks |-> <<>>] }
    \cup (IF step = "validation"
          THEN {[ok |-> TRUE, chunks |-> <<FragPassA, FragPassB>>]} ELSE {})

\* request 1 finds nothing stored for its session, request 2 finds a diagram
\* and a document
PairRows ==
    << [ok |-> TRUE, diagram |-> <<>>, document |-> <<>>],
       [ok |-> TRUE, diagram |-> StoredDiagram, document |-> StoredDocument] >>

ConcurrentInit ==
    PairInit([i \in 1..2 |->
                 Run(GraphInput(build_full_prompt(UserPrompt, PairRows[i])))])

\* variant: one state dict kept by the compiled graph for all invocations
StateOf_shared(i) == runs[1].cxt

\* the state dict the graph hands to the nodes of invocation i
StateOf(i) == runs[i].cxt

\* the next node of invocation i runs
PairStep(i) ==
    /\ pc = "pair"
    /\ runs[i].pc \in Steps
    /\ runs[i].pc = "docIteration" => RunIterations(runs[i]) < MaxIterations
    /\ \E out \in PairOutcomes(i, runs[i].pc) :
         runs' = [runs EXCEPT ![i] = Advance(runs[i], StateOf(i), out, TRUE, TRUE)]
    /\ UNCHANGED <<pipeVars, wsVars>>

StepFirst == PairStep(1)
StepSecond == PairStep(2)

PairNext == StepFirst \/ StepSecond

SpecPair == ConcurrentInit /\ [][PairNext]_vars

\* ------------------------------------------------------------- properties
Completed(i) == executed[i].err = "none"
Revisers == {"processIteration", "docIteration"}
CountFrames(t) == Cardinality({i \in 1..Len(frames) : frames[i].type = t})
\* a Validator execution that returned, with the verdict it stored
Verdict(i, sat) ==
    executed[i].step = "validation" /\ Completed(i) /\ executed[i].sat = sat

\* C1: after a Validator execution that sets is_satisfied to true the next
\* node scheduled and executed is Dispatch ("tools"), and no reviser executes
\* after it.
C1_PassGoesToDispatch ==
    \A i \in 1..Len(executed) :
        Verdict(i, TRUE) =>
            /\ i = Len(executed) => pc = "tools"
            /\ i < Len(executed) => executed[i + 1].step = "tools"
            /\ \A j \in (i + 1)..Len(executed) : executed[j].step \notin Revisers

C1_Witness ==
    \E i \in 1..Len(executed) :
        Verdict(i, TRUE) /\ i < Len(executed) /\ executed[i + 1].step = "tools"

C3_IterationGuard ==
    pc = "docIteration" => Iterations < MaxIterations

\* C4: a /chat request that has been served to its end, whatever went wrong,
\* yielded the [DONE] frame exactly once, as its last frame.
C4_DoneExactlyOnceLast ==
    (path = "chat" /\ pc = "closed") =>
        /\ frames # <<>>
        /\ Last(frames).type = "[DONE]"
        /\ CountFrames("[DONE]") = 1

\* C5: a /chat request whose pipeline aborted (a node raised) yielded
\* exactly one error frame, directly followed by the only [DONE] frame, and
\* no response frame.
C5_AbortFrames ==
    (path = "chat" /\ pc = "closed" /\ executed # <<>>
        /\ Last(executed).err # "none") =>
        /\ CountFrames("error") = 1
        /\ CountFrames("[DONE]") = 1
        /\ CountFrames("response") = 0
        /\ Len(frames) >= 2
        /\ frames[Len(frames) - 1].type = "error"
        /\ Last(frames).type = "[DONE]"

C5_Witness ==
    /\ path = "chat"
    /\ pc = "closed"
    /\ executed # <<>>
    /\ Last(executed).step = "validation"
    /\ Last(executed).err = "GatewayError"

\* C6: /run answers a RunResponse only for a run whose every node execution
\* returned and whose last node was Dispatch, and then with the final
\* document, diagram and messages; a run in which a node raised is answered
\* with an HTTP error.
C6_RunResponseOnlyOnSuccess ==
    /\ response.kind = "RunResponse" =>
          /\ executed # <<>>
          /\ \A i \in 1..Len(executed) : Completed(i)
          /\ Last(executed).step = "tools"
          /\ response.messages = cxt.messages
          /\ response.document = <<cxt.document>>
          /\ response.diagram = <<cxt.diagram>>
    /\ (path = "run" /\ pc = "closed"
          /\ \E i \in 1..Len(executed) : ~Completed(i)) =>
          response.kind = "http_error"

C6_Witness ==
    /\ path = "run"
    /\ pc = "closed"
    /\ Len(cxt.messages) > 1
    /\ Has(cxt, "diagram")
    /\ executed # <<>>
    /\ ~Completed(Len(executed))
    /\ response.kind = "http_error"

\* C7: Dispatch is scheduled, and starts executing, only in states where
\* is_satisfied is true.
C7_DispatchOnlyWhenSatisfied ==
    /\ pc = "tools" => IsSatisfied(cxt)
    /\ \A i \in 1..Len(executed) :
          executed[i].step = "tools" => (i > 1 /\ executed[i - 1].sat)

C7_Witness ==
    \E i \in 1..Len(executed) : executed[i].step = "tools" /\ Completed(i)

\* C8: Dispatch called on a dict holding a document and a diagram and
\* is_satisfied = False raises a precondition error, sends nothing to the
\* text-generation service, invokes no tool and leaves messages unchanged.
C8_DispatchPrecondition ==
    [][ ( /\ Has(cxt, "is_satisfied") /\ ~cxt.is_satisfied
          /\ Has(cxt, "document") /\ Truthy(cxt.document)
          /\ Has(cxt, "diagram") /\ Truthy(cxt.diagram)
          /\ Len(executed') = Len(executed) + 1
          /\ Last(executed').step = "tools" )
        => ( /\ Last(executed').err # "none"
             /\ gateway' = gateway
             /\ toolCalls' = toolCalls
             /\ cxt'.messages = cxt.messages ) ]_vars

\* C9: a run that completed has invoked a registered external tool exactly
\* once.
C9_DispatchToolOnce ==
    pc = "END" => toolCalls = 1

\* C10: every node execution that returns keeps the messages already
\* present, in place, and appends exactly one.
C10_OneAppendPerStage ==
    [][ ( /\ Len(executed') = Len(executed) + 1
          /\ Last(executed').err = "none" )
        => ( /\ Len(cxt'.messages) = Len(cxt.messages) + 1
             /\ SubSeq(cxt'.messages, 1, Len(cxt.messages)) = cxt.messages ) ]_vars

C10_Witness ==
    /\ pc = "stage"
    /\ Len(executed) = 2
    /\ Completed(1) /\ Completed(2)
    /\ Len(cxt.messages) = 4
    /\ cxt.messages[3] \in {NoteDoc, NoteProcess}

\* a step in which one of the nodes named in S was executed
Ran(S) == Len(executed') = Len(executed) + 1 /\ Last(executed').step \in S

\* C11: every execution, returning or raising, of a node other than the
\* Validator leaves is_satisfied as it was (absent, False or True).
C11_OnlyValidatorWritesFlag ==
    [][ Ran(Steps \ {"validation"})
        => Get(cxt', "is_satisfied") = Get(cxt, "is_satisfied") ]_vars

C11_Witness ==
    /\ pc = "stage"
    /\ Len(executed) = 2
    /\ executed[1].step = "docIteration" /\ Completed(1)
    /\ executed[2].step = "processIteration" /\ Completed(2)
    /\ Has(cxt, "is_satisfied") /\ ~cxt.is_satisfied

\* the pass marker occurs in s, letter case ignored
HasPassMarker(s) ==
    \E i \in 0..(Len(s) - 4) :
        /\ s[i + 1] \in {"p", "P"}
        /\ s[i + 2] \in {"a", "A"}
        /\ s[i + 3] \in {"s", "S"}
        /\ s[i + 4] \in {"s", "S"}

\* C12: after a Validator execution that returned, is_satisfied is true
\* exactly when the critique it appended contains the pass marker, letter
\* case ignored, whatever is_satisfied was before.
C12_FlagIffPassMarker ==
    [][ (Ran({"validation"}) /\ Last(executed').err = "none")
        => ( /\ Has(cxt', "is_satisfied")
             /\ cxt'.is_satisfied = HasPassMarker(Last(cxt'.messages)) ) ]_vars

C12_Witness ==
    /\ pc = "stage"
    /\ Len(executed) = 2
    /\ Verdict(1, TRUE)
    /\ Verdict(2, FALSE)
    /\ HasPassMarker(cxt.messages[Len(cxt.messages) - 1])
    /\ ~HasPassMarker(Last(cxt.messages))

\* In an orchestrated run every node execution but a last, raising one sends
\* exactly one prompt, so gateway[j] is the prompt of executed[j].
\* The critique in force at execution j: the message appended by the latest
\* Validator execution before j.
CritiqueBefore(j) ==
    LET i == CHOOSE i \in 1..(j - 1) :
                 /\ executed[i].step = "validation"
                 /\ \A k \in (i + 1)..(j - 1) : executed[k].step # "validation"
    IN  cxt.messages[i + 1]

\* C13: the feedback each reviser interpolates into its prompt (the last
\* message at that moment) is the critique appended by the immediately
\* preceding Validator execution.
C13_RevisersReadCritique ==
    \A j \in 1..Len(gateway) :
        gateway[j].step \in Revisers =>
            gateway[j].inputs[3] = CritiqueBefore(j)

\* C14: the Diagram Generator's prompt carries the Intent Normalizer's
\* message, and the Document Generator's prompt carries that same message
\* and the diagram the Diagram Generator stored.
C14_GeneratorsReadIntent ==
    /\ Len(gateway) >= 2 =>
          /\ executed[1].step = "intentParser"
          /\ gateway[2].step = "generateProcessDiagram"
          /\ gateway[2].inputs = <<cxt.messages[2]>>
    /\ Len(gateway) >= 3 =>
          /\ executed[2].step = "generateProcessDiagram"
          /\ gateway[3].step = "generateDocument"
          /\ gateway[3].inputs = <<cxt.messages[2], cxt.messages[3]>>

C14_Witness ==
    /\ Len(gateway) >= 3
    /\ gateway[3].step = "generateDocument"
    /\ Len(cxt.messages) >= 4
    /\ cxt.messages[2] # cxt.messages[3]

\* document or diagram is absent from the dict or empty
Missing(c) ==
    \/ ~Has(c, "document")
    \/ ~Has(c, "diagram")
    \/ ~Truthy(c.document)
    \/ ~Truthy(c.diagram)

\* C15: the Document Generator called on a dict whose diagram is absent or
\* empty raises the missing-diagram error, sends nothing to the
\* text-generation service and leaves the dict as it was, whatever the
\* length of messages.
C15_MissingDiagramError ==
    [][ ( /\ Ran({"generateDocument"})
          /\ (~Has(cxt, "diagram") \/ ~Truthy(cxt.diagram)) )
        => ( /\ Last(executed').err = "NoDiagram"
             /\ gateway' = gateway
             /\ cxt' = cxt ) ]_vars

\* C16: the Validator called on a dict whose document or diagram is absent
\* or empty raises the missing-artifact error, sends nothing to the
\* text-generation service and leaves the dict as it was.
C16_MissingArtifactError ==
    [][ (Ran({"validation"}) /\ Missing(cxt))
        => ( /\ Last(executed').err = "MissingArtifact"
             /\ gateway' = gateway
             /\ cxt' = cxt ) ]_vars

\* C17: a reviser called on a dict whose document or diagram is absent or
\* empty raises the missing-artifact error and leaves the dict as it was,
\* whatever is_satisfied is.
C17_ReviserMissingArtifact ==
    [][ (Ran(Revisers) /\ Missing(cxt))
        => ( /\ Last(executed').err = "MissingArtifact"
             /\ cxt' = cxt ) ]_vars

NoteOf(step) == IF step = "docIteration" THEN NoteDoc ELSE NoteProcess

\* C18 as stated: a reviser called with is_satisfied true sends nothing to
\* the text-generation service and returns the dict with its note appended
\* and nothing else changed.
C18_GuardAlwaysNotes ==
    [][ (Ran(Revisers) /\ IsSatisfied(cxt))
        => ( /\ Last(executed').err = "none"
             /\ gateway' = gateway
             /\ cxt' = AppendMessage(cxt, NoteOf(Last(executed').step)) ) ]_vars

\* C18 amended: the same, for a dict whose messages are not empty.
C18_GuardNotesNonEmptyHistory ==
    [][ (Ran(Revisers) /\ IsSatisfied(cxt) /\ cxt.messages # <<>>)
        => ( /\ Last(executed').err = "none"
             /\ gateway' = gateway
             /\ cxt' = AppendMessage(cxt, NoteOf(Last(executed').step)) ) ]_vars

C18_Witness ==
    /\ pc = "stage"
    /\ Len(executed) = 1
    /\ executed[1].step = "docIteration" /\ Completed(1)
    /\ IsSatisfied(cxt)
    /\ ~Has(cxt, "document")
    /\ Last(cxt.messages) = NoteDoc
    /\ gateway = <<>>

\* C19: in an orchestrated run no node raises a precondition error: the only
\* exception a node execution ends with is a failure of the text-generation
\* service.
C19_NoPreconditionError ==
    \A i \in 1..Len(executed) : executed[i].err \in {"none", "GatewayError"}

\* C20: a node execution in which the text-generation service fails has sent
\* one prompt only, leaves the dict as it was and aborts the run; after it no
\* node executes, no prompt is sent and the dict does not change.
C20_GatewayFailureAborts ==
    [][ /\ (Ran(Steps) /\ Last(executed').err = "GatewayError")
           => ( /\ cxt' = cxt
                /\ Len(gateway') = Len(gateway) + 1
                /\ pc' = "aborted" )
        /\ (executed # <<>> /\ Last(executed).err = "GatewayError")
           => ( /\ executed' = executed
                /\ gateway' = gateway
                /\ cxt' = cxt
                /\ pc' = "closed" ) ]_vars

C20_Witness ==
    /\ pc = "closed"
    /\ executed # <<>>
    /\ Last(executed).step = "processIteration"
    /\ Last(executed).err = "GatewayError"
    /\ Has(cxt, "document")

\* the set of sockets in a list
Members(l) == {l[i] : i \in 1..Len(l)}

\* C23 as stated: under any interleaving of connect, disconnect and
\* send_status, once every call has returned the registry entry of each
\* session id holds exactly the sockets connected under it, not disconnected
\* since, that never failed a write.
C23_RegistryExact ==
    Quiescent => \A sid \in Sessions : Members(Registered(sid)) = expected[sid]

\* the send_json calls made by call t, in order
WritesOf(w, t) == SelectSeq(w, LAMBDA e : e.task = t)
Targets(ws) == [i \in 1..Len(ws) |-> ws[i].ws]
\* a send_status call for sid started, resumed or returned in this step
SendStepped(sid) ==
    \E t \in 1..Len(tasks') :
        /\ tasks'[t].op = "send_status" /\ tasks'[t].sid = sid
        /\ \/ t > Len(tasks)
           \/ tasks'[t].pc # tasks[t].pc
           \/ tasks'[t].idx # tasks[t].idx
ConnectedUnder(sid, ws) ==
    \E t \in 1..Len(tasks) :
        /\ tasks[t].op = "connect" /\ tasks[t].pc = "done"
        /\ tasks[t].sid = sid /\ tasks[t].ws = ws

\* C24: send_status(sid, step) writes only to sockets that were connected
\* under sid, and leaves the registry entry of every other session id as it
\* was.
C24_SendRoutesBySession ==
    [][ /\ \A i \in (Len(wire) + 1)..Len(wire') :
               ConnectedUnder(wire'[i].sid, wire'[i].ws)
        /\ \A sid \in Sessions :
               SendStepped(sid) =>
                   \A other \in Sessions \ {sid} :
                       /\ Registered(other)' = Registered(other)
                       /\ Has(active, other)' = Has(active, other) ]_vars

C24_Witness ==
    \E i \in 1..Len(wire) :
        /\ wire[i].sid = "s1" /\ wire[i].ws = "w1"
        /\ Registered("s2") = <<"w2">>

\* C25: a send_status call during which no connect or disconnect ran
\* writes to every socket registered under its session id when it started,
\* in order, whether or not an earlier write failed, and returns normally
\* with the registry entry holding exactly the sockets whose write succeeded,
\* in their original order.
C25_SendPrunesFailedOnly ==
    [][ \A t \in 1..Len(tasks') :
            ( /\ tasks'[t].op = "send_status"
              /\ tasks'[t].pc = "done"
              /\ t <= Len(tasks) => tasks[t].pc = "write"
              /\ ~tasks'[t].interleaved )
            => LET mine == WritesOf(wire', t)
               IN  /\ Targets(mine) = tasks'[t].snapshot
                   /\ \A sid \in Sessions :
                          sid = tasks'[t].sid =>
                              Registered(sid)'
                                = Targets(SelectSeq(mine, LAMBDA e : e.ok)) ]_vars

C25_Witness ==
    \E t \in 1..Len(tasks) :
        /\ tasks[t].op = "send_status" /\ tasks[t].pc = "done"
        /\ ~tasks[t].interleaved
        /\ LET mine == WritesOf(wire, t)
           IN  /\ Len(mine) = 2 /\ ~mine[1].ok /\ mine[2].ok
               /\ Registered(tasks[t].sid) = <<mine[2].ws>>

\* C26: the chat_session_id of the RunResponse of /run and of the 'response'
\* frame of /chat is the chat_session_id of the request.
C26_SessionIdEchoed ==
    /\ response.kind = "RunResponse"
           => response.chat_session_id = body.chat_session_id
    /\ \A i \in 1..Len(frames) :
           frames[i].type = "response"
               => frames[i].chat_session_id = body.chat_session_id

C26_Witness ==
    /\ body.chat_session_id = "s2"
    /\ \E i \in 1..Len(frames) :
           frames[i].type = "response" /\ frames[i].chat_session_id = "s2"
    /\ Len(executed) >= 7

\* the status frames of the stream, in order
StatusFrames == SelectSeq(frames, LAMBDA f : f.type = "status")

\* C22: within one request every 'end' status event directly follows, among
\* the status events, the 'start' event of the same stage, and a 'start'
\* event is followed by no status event other than the 'end' of that stage:
\* no two stages overlap.
C22_StatusWellBracketed ==
    LET S == StatusFrames
    IN  \A k \in 1..Len(S) :
            /\ S[k].status = "end"
                   => k > 1 /\ S[k - 1].status = "start" /\ S[k - 1].step = S[k].step
            /\ (S[k].status = "start" /\ k < Len(S))
                   => S[k + 1].status = "end" /\ S[k + 1].step = S[k].step

C22_Witness ==
    LET S == StatusFrames
    IN  /\ pc = "closed"
        /\ Len(S) >= 14
        /\ \E k \in 1..Len(S) : S[k].step = "processIteration" /\ S[k].status = "end"

\* C21 as stated: with the same request and the same text-generation
\* outcomes, the run with a progress handler (delivering or raising) executes
\* the same nodes and holds the same history, diagram, document and
\* is_satisfied as the run without one.
C21_SinkNoInfluence ==
    /\ runs[1].pc = runs[2].pc
    /\ runs[1].executed = runs[2].executed
    /\ Outcome(runs[1].cxt) = Outcome(runs[2].cxt)

\* the request R run by itself on the outcomes `outs`
RECURSIVE Alone(_, _)
Alone(R, outs) ==
    IF outs = <<>> \/ R.pc \notin Steps THEN R
    ELSE Alone(Advance(R, R.cxt, Head(outs), TRUE, TRUE), Tail(outs))

ChatSucceeded ==
    /\ path = "chat"
    /\ executed # <<>>
    /\ Last(executed).step = "tools" /\ Last(executed).err = "none"

\* C28: the stream of a successful /chat request holds exactly one
\* 'response' frame, placed after every status and chunk frame and directly
\* before [DONE]; its document, diagram and messages are those of the state
\* after Dispatch and its assistant_message is the last history entry.  No
\* 'response' frame is in a stream that has not ended.
C28_ResponseFrameLast ==
    /\ \A i \in 1..Len(frames) : frames[i].type = "response" => pc = "closed"
    /\ (ChatSucceeded /\ pc = "closed") =>
           LET n == Len(frames)
               f == frames[n - 1]
           IN  /\ n >= 2
               /\ CountFrames("response") = 1
               /\ f.type = "response"
               /\ frames[n] = DoneFrame
               /\ \A i \in 1..(n - 2) : frames[i].type \in {"status", "chunk"}
               /\ f.document = Get(cxt, "document")
               /\ f.diagram = Get(cxt, "diagram")
               /\ f.messages = cxt.messages
               /\ f.assistant_message = Last(cxt.messages)
               /\ f.assistant_message = invoke_llm([ok |-> TRUE,
                      chunks |-> SelectSeq(
                          [i \in 1..Len(frames) |->
                              IF frames[i].type = "chunk" /\ frames[i].step = "tools"
                              THEN frames[i].delta ELSE <<>>],
                          LAMBDA d : d # <<>>)])

C28_Witness ==
    /\ ChatSucceeded /\ pc = "closed"
    /\ CountFrames("response") = 1
    /\ Iterations = 1

\* C29: in an orchestrated run only the Diagram Generator and the Diagram
\* Reviser change diagram, only the Document Generator and the Document
\* Reviser change document, and after every step a document is present only
\* if a diagram is.
C29_ArtifactWriters ==
    [][ /\ Ran(Steps \ {"generateProcessDiagram", "processIteration"})
               => Get(cxt', "diagram") = Get(cxt, "diagram")
        /\ Ran(Steps \ {"generateDocument", "docIteration"})
               => Get(cxt', "document") = Get(cxt, "document")
        /\ Has(cxt', "document") => Has(cxt', "diagram") ]_vars

C29_Witness ==
    \E i, j \in 1..Len(executed) :
        /\ executed[i].step = "docIteration" /\ Completed(i)
        /\ executed[j].step = "processIteration" /\ Completed(j)
        /\ Has(cxt, "document") /\ Has(cxt, "diagram")
        /\ cxt.document # cxt.diagram

\* C30: a /chat request invokes the graph once: the Intent Normalizer runs
\* at most once and nothing runs once the stream has ended.
C30_PipelineRunsOnce ==
    /\ invocations <= 1
    /\ Cardinality({i \in 1..Len(executed) : executed[i].step = "intentParser"}) <= 1
    /\ Cardinality({i \in 1..Len(gateway) : gateway[i].step = "intentParser"}) <= 1

C30_Witness ==
    /\ ChatSucceeded /\ pc = "closed"
    /\ invocations = 1
    /\ final_state # <<>>
    /\ Last(frames) = DoneFrame

\* C31: once a Validator execution has set is_satisfied to true, the state
\* keeps it true after every later node execution and at every later point
\* of the run, and the Validator is not executed again.
C31_SatisfiedIsFinal ==
    \A i \in 1..Len(executed) :
        Verdict(i, TRUE) =>
            /\ IsSatisfied(cxt)
            /\ pc # "validation"
            /\ \A j \in (i + 1)..Len(executed) :
                   executed[j].sat /\ executed[j].step # "validation"

C31_Witness ==
    /\ pc = "closed"
    /\ \E h, i \in 1..Len(executed) :
           /\ h < i /\ i < Len(executed)
           /\ Verdict(h, FALSE) /\ Verdict(i, TRUE)
           /\ Last(executed).step = "tools" /\ Last(executed).sat

\* a disconnect(sid, ws) call was made in this step
Disconnected(sid, ws) ==
    /\ Len(tasks') = Len(tasks) + 1
    /\ Last(tasks').op = "disconnect"
    /\ Last(tasks').sid = sid /\ Last(tasks').ws = ws

\* C32: after every step of connect, disconnect and send_status no session
\* id of the registry is mapped to an empty list, and a disconnect of a
\* socket that is not in the list of its session id, or of a session id that
\* is not in the registry, leaves the registry as it was.
C32_NoEmptyEntry ==
    [][ /\ \A sid \in Sessions : Has(active, sid)' => Registered(sid)' # <<>>
        /\ \A sid \in Sessions, ws \in Sinks :
               (Disconnected(sid, ws) /\ ~InList(Registered(sid), ws))
                   => /\ DOMAIN active' = DOMAIN active
                      /\ \A other \in Sessions :
                             Registered(other)' = Registered(other) ]_vars

C32_Witness ==
    \E t, u \in 1..Len(tasks) :
        /\ t < u
        /\ tasks[t].op = "disconnect" /\ tasks[u].op = "disconnect"
        /\ ~ConnectedUnder(tasks[t].sid, tasks[t].ws)
        /\ ConnectedUnder(tasks[u].sid, tasks[u].ws)
        /\ ~Has(active, tasks[u].sid)
        /\ Registered(tasks[t].sid) # <<>>

====
